---- MODULE Spec2Model ----
(***************************************************************************)
(* A model of the Turing machine simulator of src/Turing.py.               *)
(*                                                                         *)
(* Python strings are sequences of one-character strings, so that a state  *)
(* name such as "Q0" is <<"Q", "0">> and a symbol such as "b" is <<"b">>.  *)
(* Python lists are objects: `heap` maps a reference to the contents of    *)
(* the list it names.  Reference 0 is the list the caller hands to run;    *)
(* reference k > 0 is the list that the k-th run allocated last (a list    *)
(* no variable names any more is dropped and its reference reused).        *)
(***************************************************************************)
EXTENDS Integers, Sequences, FiniteSets, TLC

(* A fill symbol other than the one of line 4. *)
EMPTY_Space == <<" ">>

EMPTY == <<"b">>
START_STATE == <<"Q", "0">>

L == -1
R == 1
S == 0

(* Bounds of the model. *)
MaxLines == 2
MaxFairLines == 1
MaxInitTape == 2
MaxTapeLen == 4
MaxRuns == 2
MaxOffset == 1
MaxFields == 5
MaxTextLines == 4
MaxSymbolLen == 2

StateIds == {<<"Q", "0">>, <<"Q", "1">>}
Alphabet == {<<"1">>, EMPTY}
Moves == {L, R, S}

SeqsUpTo(set, n) == UNION {[1..k -> set] : k \in 0..n}

(* ---------------------------- TuringCommand ---------------------------- *)

(* __post_init__ without the test of ret_symbol of line 29. *)
PostInitOk_NoRetSymbol(command) ==
    /\ Len(command.inp_symbol) = 1
    /\ command.ret_move \in {L, R, S}

PostInitOk(command) ==
    /\ Len(command.inp_symbol) = 1
    /\ Len(command.ret_symbol) = 1
    /\ command.ret_move \in {L, R, S}

TuringCommand ==
    {command \in [inp_state : StateIds, inp_symbol : Alphabet,
                  ret_state : StateIds, ret_symbol : Alphabet,
                  ret_move : Moves] : PostInitOk(command)}

(* ---------------------------- TuringMachine ---------------------------- *)

EmptyDict == [k \in {} |-> 0]

(* An insertion that keeps the value a key already has (setdefault). *)
DictSet_KeepFirst(dict, key, value) ==
    [k \in DOMAIN dict \cup {key} |->
        IF k \in DOMAIN dict THEN dict[k] ELSE value]

DictSet(dict, key, value) ==
    [k \in DOMAIN dict \cup {key} |-> IF k = key THEN value ELSE dict[k]]

(* A key built from the state the command leads to. *)
Key_RetState(command) == <<command.ret_state, command.inp_symbol>>

Key(command) == <<command.inp_state, command.inp_symbol>>

(* The loop of TuringMachine.parse over the commands of the non-blank      *)
(* lines of the text, in text order.                                       *)
RECURSIVE InsertCommands(_, _)
InsertCommands(commands, dict) ==
    IF commands = <<>> THEN dict
    ELSE InsertCommands(Tail(commands),
                        DictSet(dict, Key(Head(commands)), Head(commands)))

MachineParse(commands) == InsertCommands(commands, EmptyDict)

(* A split that drops the empty pieces, as str.split() without a          *)
(* separator does.                                                         *)
RECURSIVE Split_SkipEmpty(_, _)
Split_SkipEmpty(str, sep) ==
    IF str = <<>> THEN <<>>
    ELSE IF Head(str) = sep THEN Split_SkipEmpty(Tail(str), sep)
    ELSE LET rest == Split_SkipEmpty(Tail(str), sep)
         IN  IF Len(str) > 1 /\ str[2] # sep
             THEN << <<Head(str)>> \o Head(rest) >> \o Tail(rest)
             ELSE << <<Head(str)>> >> \o rest

(* str.split(sep): the pieces between the occurrences of the character    *)
(* sep; an empty piece where two of them meet or the string starts or ends *)
(* with one, and one empty piece for the empty string.                     *)
Split(str, sep) ==
    LET seps == {i \in 1..Len(str) : str[i] = sep}
        count == Cardinality(seps) + 1
        cut(k) == IF k = 0 THEN 0
                  ELSE IF k = count THEN Len(str) + 1
                  ELSE CHOOSE i \in seps :
                           Cardinality({j \in seps : j <= i}) = k
    IN  [k \in 1..count |-> SubSeq(str, cut(k - 1) + 1, cut(k) - 1)]

(* The text whose pieces are the given ones: sep.join(pieces). *)
RECURSIVE Join(_, _)
Join(pieces, sep) ==
    IF pieces = <<>> THEN <<>>
    ELSE IF Len(pieces) = 1 THEN Head(pieces)
    ELSE Head(pieces) \o <<sep>> \o Join(Tail(pieces), sep)

MoveCodes == {<<"L">>, <<"R">>, <<"S">>}

(* The match statement with the moves of L and R exchanged. *)
MoveOf_Swapped(code) ==
    IF code = <<"L">> THEN R ELSE IF code = <<"R">> THEN L ELSE S

(* The match statement of TuringCommand.parse. *)
MoveOf(code) ==
    IF code = <<"L">> THEN L ELSE IF code = <<"R">> THEN R ELSE S

(* The constructor of the dataclass: the record, or the ValueError of      *)
(* __post_init__.                                                          *)
Construct(inp_state, inp_symbol, ret_state, ret_symbol, ret_move) ==
    LET command == [inp_state |-> inp_state, inp_symbol |-> inp_symbol,
                    ret_state |-> ret_state, ret_symbol |-> ret_symbol,
                    ret_move |-> ret_move]
    IN  IF PostInitOk(command)
        THEN [ok |-> TRUE, command |-> command]
        ELSE [ok |-> FALSE, raised |-> "ValueError"]

(* TuringCommand.parse: the unpacking of line 38 raises ValueError unless  *)
(* the split gives five pieces.                                            *)
CommandParse(text) ==
    LET pieces == Split(text, " ")
    IN  IF Len(pieces) # 5 THEN [ok |-> FALSE, raised |-> "ValueError"]
        ELSE IF pieces[5] \notin MoveCodes
             THEN [ok |-> FALSE, raised |-> "ValueError"]
             ELSE Construct(pieces[1], pieces[2], pieces[3], pieces[4],
                            MoveOf(pieces[5]))

(* A loop that hands every line to TuringCommand.parse. *)
LineIsParsed_Always(line) == TRUE

(* The test of line 144: the line is handed to TuringCommand.parse. *)
LineIsParsed(line) == Len(line) # 0

(* A loop that goes on with the next line when a line does not parse. *)
RECURSIVE ParseLines_SkipMalformed(_, _, _)
ParseLines_SkipMalformed(lines, i, dict) ==
    IF i > Len(lines) THEN [ok |-> TRUE, programm |-> dict]
    ELSE IF LineIsParsed(lines[i]) /\ CommandParse(lines[i]).ok
         THEN LET command == CommandParse(lines[i]).command
              IN  ParseLines_SkipMalformed(lines, i + 1,
                                           DictSet(dict, Key(command),
                                                   command))
         ELSE ParseLines_SkipMalformed(lines, i + 1, dict)

(* The loop of TuringMachine.parse from line i of lines on: the dict, or   *)
(* the error of the first line that does not parse and its number.         *)
RECURSIVE ParseLines(_, _, _)
ParseLines(lines, i, dict) ==
    IF i > Len(lines) THEN [ok |-> TRUE, programm |-> dict]
    ELSE IF LineIsParsed(lines[i])
         THEN LET parsed == CommandParse(lines[i])
              IN  IF parsed.ok
                  THEN ParseLines(lines, i + 1,
                                  DictSet(dict, Key(parsed.command),
                                          parsed.command))
                  ELSE [ok |-> FALSE, raised |-> parsed.raised, line |-> i]
         ELSE ParseLines(lines, i + 1, dict)

(* TuringMachine.parse on a text. *)
MachineParseText(text) == ParseLines(Split(text, "\n"), 1, EmptyDict)

(* ----------------------------- TuringState ----------------------------- *)

(* Python list indexing: list[i] is defined for -len <= i < len, and a     *)
(* negative i counts from the end.                                         *)
PyIndexOk(list, i) == -Len(list) <= i /\ i < Len(list)

PyPos(list, i) == IF i >= 0 THEN i + 1 ELSE Len(list) + i + 1

PyGet(list, i) == list[PyPos(list, i)]

PySet(list, i, value) == [list EXCEPT ![PyPos(list, i)] = value]

Index(ts) == ts.position + ts.offset

symbol(ts) == PyGet(ts.tape, Index(ts))

(* GrowTape without the increment of the offset of line 115. *)
GrowTape_NoOffset(tape, position, offset) ==
    IF position + offset < 0
    THEN [tape |-> <<EMPTY>> \o tape, offset |-> offset, fresh |-> TRUE]
    ELSE IF position + offset >= Len(tape)
         THEN [tape |-> tape \o <<EMPTY>>, offset |-> offset, fresh |-> TRUE]
         ELSE [tape |-> tape, offset |-> offset, fresh |-> FALSE]

(* GrowTape putting the new cell of line 116 at the wrong end. *)
GrowTape_AppendOnLeft(tape, position, offset) ==
    IF position + offset < 0
    THEN [tape |-> tape \o <<EMPTY>>, offset |-> offset + 1, fresh |-> TRUE]
    ELSE IF position + offset >= Len(tape)
         THEN [tape |-> tape \o <<EMPTY>>, offset |-> offset, fresh |-> TRUE]
         ELSE [tape |-> tape, offset |-> offset, fresh |-> FALSE]

(* GrowTape with > for >= in the test of line 117. *)
GrowTape_StrictRight(tape, position, offset) ==
    IF position + offset < 0
    THEN [tape |-> <<EMPTY>> \o tape, offset |-> offset + 1, fresh |-> TRUE]
    ELSE IF position + offset > Len(tape)
         THEN [tape |-> tape \o <<EMPTY>>, offset |-> offset, fresh |-> TRUE]
         ELSE [tape |-> tape, offset |-> offset, fresh |-> FALSE]

(* Lines 113-118: the list and offset after the head moved to `position`.  *)
(* `fresh` says that the tape is a newly allocated list.                   *)
GrowTape(tape, position, offset) ==
    IF position + offset < 0
    THEN [tape |-> <<EMPTY>> \o tape, offset |-> offset + 1, fresh |-> TRUE]
    ELSE IF position + offset >= Len(tape)
         THEN [tape |-> tape \o <<EMPTY>>, offset |-> offset, fresh |-> TRUE]
         ELSE [tape |-> tape, offset |-> offset, fresh |-> FALSE]

(* The assertion of line 120. *)
AssertBounds(tape, position, offset) ==
    0 <= position + offset /\ position + offset < Len(tape)

(* A write that puts back the symbol the command reads. *)
WriteCell_InpSymbol(ts, command) ==
    PySet(ts.tape, Index(ts), command.inp_symbol)

(* The cell written in place by line 108, in the list ts.tape itself. *)
WriteCell(ts, command) == PySet(ts.tape, Index(ts), command.ret_symbol)

Unchanged(ts, raised) ==
    [written |-> ts.tape, tape |-> ts.tape, fresh |-> FALSE,
     position |-> ts.position, offset |-> ts.offset, state |-> ts.state,
     raised |-> raised]

(* execute_command testing the symbol before the state. *)
execute_command_SymbolFirst(ts, command) ==
    IF ~PyIndexOk(ts.tape, Index(ts))
    THEN Unchanged(ts, "IndexError")
    ELSE IF symbol(ts) # command.inp_symbol
         THEN Unchanged(ts, "ValueError: symbol")
         ELSE IF ts.state # command.inp_state
              THEN Unchanged(ts, "ValueError: state")
              ELSE LET written == WriteCell(ts, command)
                       position == ts.position + command.ret_move
                       grown == GrowTape(written, position, ts.offset)
                   IN  [written |-> written, tape |-> grown.tape,
                        fresh |-> grown.fresh, position |-> position,
                        offset |-> grown.offset, state |-> command.ret_state,
                        raised |-> IF AssertBounds(grown.tape, position,
                                                   grown.offset)
                                   THEN "none" ELSE "AssertionError"]

(* execute_command on the state ts (tape given by its contents).           *)
(* `written` is the contents of the list ts.tape named before the call,    *)
(* `tape` the contents of the list ts.tape names after it.                 *)
execute_command(ts, command) ==
    IF ts.state = command.inp_state
    THEN IF ~PyIndexOk(ts.tape, Index(ts))
         THEN Unchanged(ts, "IndexError")
         ELSE IF symbol(ts) = command.inp_symbol
              THEN LET written == WriteCell(ts, command)
                       position == ts.position + command.ret_move
                       grown == GrowTape(written, position, ts.offset)
                   IN  [written |-> written, tape |-> grown.tape,
                        fresh |-> grown.fresh, position |-> position,
                        offset |-> grown.offset, state |-> command.ret_state,
                        raised |-> IF AssertBounds(grown.tape, position,
                                                   grown.offset)
                                   THEN "none" ELSE "AssertionError"]
              ELSE Unchanged(ts, "ValueError: symbol")
    ELSE Unchanged(ts, "ValueError: state")

(* A lookup that takes the entry out of the dict (pop for []). *)
ProgrammAfterLookup_Pop(dict, key) ==
    [k \in DOMAIN dict \ {key} |-> dict[k]]

(* What single_step does to the dict: `in` and `[]` only read it. *)
ProgrammAfterLookup(dict, key) == dict

LookupKey(ts) == <<ts.state, symbol(ts)>>

(* single_step without the `return True` of line 174. *)
single_step_NoReturnTrue(dict, ts) ==
    IF ~PyIndexOk(ts.tape, Index(ts))
    THEN [out |-> Unchanged(ts, "IndexError"), ret |-> "none", dict |-> dict]
    ELSE IF LookupKey(ts) \in DOMAIN dict
         THEN [out |-> execute_command(ts, dict[LookupKey(ts)]),
               ret |-> "False",
               dict |-> ProgrammAfterLookup(dict, LookupKey(ts))]
         ELSE [out |-> Unchanged(ts, "none"), ret |-> "False", dict |-> dict]

(* single_step: the outcome of execute_command, the returned value and    *)
(* the dict after the call.                                                *)
single_step(dict, ts) ==
    IF ~PyIndexOk(ts.tape, Index(ts))
    THEN [out |-> Unchanged(ts, "IndexError"), ret |-> "none", dict |-> dict]
    ELSE IF LookupKey(ts) \in DOMAIN dict
         THEN LET out == execute_command(ts, dict[LookupKey(ts)])
              IN  [out |-> out,
                   ret |-> IF out.raised = "none" THEN "True" ELSE "none",
                   dict |-> ProgrammAfterLookup(dict, LookupKey(ts))]
         ELSE [out |-> Unchanged(ts, "none"), ret |-> "False", dict |-> dict]

(* A loop that ends after its first iteration. *)
LoopContinues_Once(returned) == FALSE

(* A loop that never tests the returned value (while True). *)
LoopContinues_Forever(returned) == TRUE

(* The test of the loop `while run` on the value single_step returned. *)
LoopContinues(returned) == returned = "True"

(* ------------------------------- state -------------------------------- *)

VARIABLES programm, heap, turing_state, start_state, pc, ret, raised,
          results, tape_before, input, output

vars == <<programm, heap, turing_state, start_state, pc, ret, raised,
          results, tape_before, input, output>>

NoState == [tape |-> 0, position |-> 0, offset |-> 0, state |-> START_STATE]

(* The TuringState with its tape given by contents. *)
State == [turing_state EXCEPT !.tape = heap[turing_state.tape]]

tape == heap[turing_state.tape]

(* The reference of the list the current run allocates. *)
RunRef == Len(results) + 1

InitialTapes == SeqsUpTo(Alphabet, MaxInitTape)

(* A machine parsed from at most n lines, and the list, start state and    *)
(* results of a caller that has not called run yet.                        *)
InitWith(n) ==
    /\ \E commands \in SeqsUpTo(TuringCommand, n) :
           programm = MachineParse(commands)
    /\ \E list \in InitialTapes : heap = (0 :> list)
    /\ start_state \in StateIds
    /\ turing_state = NoState
    /\ pc = "idle"
    /\ ret = "none"
    /\ raised = "none"
    /\ results = <<>>
    /\ tape_before = <<>>
    /\ input = <<>>
    /\ output = <<>>

Init == InitWith(MaxLines)

InitFair == InitWith(MaxFairLines)

(* The effect of one single_step on the lists and the TuringState. *)
Apply(step) ==
    /\ Len(step.out.tape) <= MaxTapeLen
    /\ programm' = step.dict
    /\ heap' = IF step.out.fresh
               THEN (RunRef :> step.out.tape)
                    @@ [heap EXCEPT ![turing_state.tape] = step.out.written]
               ELSE [heap EXCEPT ![turing_state.tape] = step.out.written]
    /\ turing_state' = [tape |-> IF step.out.fresh THEN RunRef
                                 ELSE turing_state.tape,
                        position |-> step.out.position,
                        offset |-> step.out.offset,
                        state |-> step.out.state]
    /\ ret' = step.ret
    /\ raised' = step.out.raised

(* run, line 187: the TuringState is built on the caller's list. *)
Call ==
    /\ pc \in {"idle", "returned"}
    /\ Len(results) < MaxRuns
    /\ turing_state' = [tape |-> 0, position |-> 0, offset |-> 0,
                        state |-> start_state]
    /\ tape_before' = heap[0]
    /\ pc' = "running"
    /\ ret' = "none"
    /\ UNCHANGED <<programm, heap, start_state, raised, results, input,
                   output>>

(* run, lines 190-198: one iteration of the loop, and the return when      *)
(* single_step answered False.                                             *)
RunStep ==
    /\ pc = "running"
    /\ LET step == single_step(programm, State)
       IN  /\ Apply(step)
           /\ pc' = IF step.out.raised # "none" THEN "raised"
                    ELSE IF LoopContinues(step.ret) THEN "running"
                    ELSE "returned"
           /\ results' = IF step.out.raised = "none"
                            /\ ~LoopContinues(step.ret)
                         THEN Append(results,
                                     [tape |-> turing_state'.tape,
                                      state |-> turing_state'.state])
                         ELSE results
    /\ UNCHANGED <<start_state, tape_before, input, output>>

Next == Call \/ RunStep

Spec == Init /\ [][Next]_vars

(* single_step called directly on a TuringState the caller built. *)
InBoundsStates ==
    {ts \in [tape : InitialTapes, position : -(MaxOffset + 1)..MaxInitTape,
             offset : -1..MaxOffset, state : StateIds] :
        0 <= Index(ts) /\ Index(ts) < Len(ts.tape)}

InitStep ==
    /\ \E commands \in SeqsUpTo(TuringCommand, MaxLines) :
           programm = MachineParse(commands)
    /\ \E ts \in InBoundsStates :
           /\ heap = (0 :> ts.tape)
           /\ turing_state = [ts EXCEPT !.tape = 0]
    /\ start_state = START_STATE
    /\ pc = "stepping"
    /\ ret = "none"
    /\ raised = "none"
    /\ results = <<>>
    /\ tape_before = <<>>
    /\ input = <<>>
    /\ output = <<>>

SingleStepCall ==
    /\ pc = "stepping"
    /\ Apply(single_step(programm, State))
    /\ UNCHANGED <<start_state, pc, results, tape_before, input, output>>

SpecStep == InitStep /\ [][SingleStepCall]_vars

(* The variables of the machine and its runs, for the calls that have     *)
(* neither.                                                                *)
NoMachine ==
    /\ programm = EmptyDict
    /\ heap = (0 :> <<>>)
    /\ turing_state = NoState
    /\ start_state = START_STATE
    /\ ret = "none"
    /\ raised = "none"
    /\ results = <<>>
    /\ tape_before = <<>>

Frame ==
    UNCHANGED <<programm, heap, turing_state, start_state, ret, raised,
                results, tape_before, input>>

(* TuringCommand.parse called on a line given by its pieces. *)
FieldStrings ==
    {<<>>, <<"Q", "0">>, <<"1">>, <<"a", "b">>, <<"L">>, <<"R">>, <<"S">>,
     <<"X">>, <<"l">>}

InitCommandParse ==
    /\ NoMachine
    /\ \E fields \in SeqsUpTo(FieldStrings, MaxFields) :
           input = [fields |-> fields, text |-> Join(fields, " ")]
    /\ output = <<>>
    /\ pc = "command_parse"

CommandParseCall ==
    /\ pc = "command_parse"
    /\ output' = CommandParse(input.text)
    /\ pc' = "command_parsed"
    /\ Frame

SpecCommandParse == InitCommandParse /\ [][CommandParseCall]_vars

(* TuringMachine.parse called on a text given by its lines: blank lines,  *)
(* commands (two of them with the same key, one with an empty state name)  *)
(* and lines that do not parse.                                            *)
ProgramLines ==
    {<<>>,
     Join(<<<<"Q", "0">>, <<"1">>, <<"Q", "0">>, <<"b">>, <<"L">>>>, " "),
     Join(<<<<"Q", "0">>, <<"1">>, <<"Q", "1">>, <<"1">>, <<"R">>>>, " "),
     Join(<<<<"Q", "1">>, <<"b">>, <<"Q", "0">>, <<"1">>, <<"S">>>>, " "),
     Join(<<<<>>, <<"1">>, <<"Q", "0">>, <<"b">>, <<"R">>>>, " "),
     Join(<<<<"Q", "0">>, <<"1">>, <<"Q", "1">>>>, " "),
     Join(<<<<"Q", "0">>, <<"1">>, <<"Q", "1">>, <<"1">>, <<"X">>>>, " "),
     Join(<<<<"Q", "0">>, <<"a", "b">>, <<"Q", "1">>, <<"1">>, <<"L">>>>, " "),
     <<" ">>}

InitMachineParse ==
    /\ NoMachine
    /\ \E lines \in SeqsUpTo(ProgramLines, MaxTextLines) :
           input = [lines |-> lines, text |-> Join(lines, "\n")]
    /\ output = <<>>
    /\ pc = "machine_parse"

MachineParseCall ==
    /\ pc = "machine_parse"
    /\ output' = MachineParseText(input.text)
    /\ pc' = "machine_parsed"
    /\ Frame

SpecMachineParse == InitMachineParse /\ [][MachineParseCall]_vars

(* The constructor of TuringCommand called on arguments of the caller. *)
ArgStates == {<<>>, <<"Q", "0">>}
ArgSymbols == SeqsUpTo({"a", "b"}, MaxSymbolLen)
ArgMoves == -2..2

InitConstruct ==
    /\ NoMachine
    /\ input \in [inp_state : ArgStates, inp_symbol : ArgSymbols,
                  ret_state : ArgStates, ret_symbol : ArgSymbols,
                  ret_move : ArgMoves]
    /\ output = <<>>
    /\ pc = "construct"

ConstructCall ==
    /\ pc = "construct"
    /\ output' = Construct(input.inp_state, input.inp_symbol,
                           input.ret_state, input.ret_symbol, input.ret_move)
    /\ pc' = "constructed"
    /\ Frame

SpecConstruct == InitConstruct /\ [][ConstructCall]_vars

(* execute_command called directly, with any command, on a TuringState   *)
(* the caller built.                                                       *)
InitExecute ==
    /\ programm = EmptyDict
    /\ \E ts \in InBoundsStates :
           /\ heap = (0 :> ts.tape)
           /\ turing_state = [ts EXCEPT !.tape = 0]
    /\ start_state = START_STATE
    /\ pc = "executing"
    /\ ret = "none"
    /\ raised = "none"
    /\ results = <<>>
    /\ tape_before = <<>>
    /\ input = <<>>
    /\ output = <<>>

ExecuteCommandCall ==
    /\ pc = "executing"
    /\ \E command \in TuringCommand :
           /\ Apply([out |-> execute_command(State, command),
                     ret |-> "none", dict |-> programm])
           /\ input' = command
    /\ pc' = "executed"
    /\ UNCHANGED <<start_state, results, tape_before, output>>

SpecExecute == InitExecute /\ [][ExecuteCommandCall]_vars

(* The loop of run goes on as long as it can. *)
FairSpec == InitFair /\ [][Next]_vars /\ WF_vars(RunStep)

(* ------------------------------ properties ----------------------------- *)

InBounds == 0 <= Index(State) /\ Index(State) < Len(tape)

(* The key of the current configuration, read off the tape directly. *)
CurKey == <<turing_state.state, tape[Index(State) + 1]>>

HasEntry == InBounds /\ CurKey \in DOMAIN programm

Entry == programm[CurKey]

(* C1: in a run on a non-empty tape the head stays inside the tape, and    *)
(* the assertion of execute_command never fails.                           *)
C1_BoundsInvariant ==
    (pc \in {"running", "returned", "raised"} /\ Len(heap[0]) > 0)
        => (InBounds /\ raised # "AssertionError")

(* A run that grew the tape on both sides. *)
C1_Witness ==
    /\ pc = "running"
    /\ turing_state.offset = 1
    /\ Len(tape) = Len(heap[0]) + 2
    /\ turing_state.position = Len(heap[0])

(* C2: single_step returns False exactly when the program has no entry     *)
(* for (state, symbol under the head) and then changes nothing; otherwise  *)
(* it applies the entry of that key and returns True.                      *)
C2_HaltingDetection ==
    [][(pc = "stepping" /\ InBounds) =>
          IF CurKey \in DOMAIN programm
          THEN /\ ret' = "True"
               /\ raised' = "none"
               /\ turing_state'.state = Entry.ret_state
               /\ turing_state'.position =
                      turing_state.position + Entry.ret_move
               /\ tape'[turing_state.position + turing_state'.offset + 1]
                      = Entry.ret_symbol
          ELSE /\ ret' = "False"
               /\ raised' = "none"
               /\ UNCHANGED <<heap, turing_state>>]_vars

(* single_step answered False after the tape had grown. *)
C2_Witness ==
    /\ pc = "stepping"
    /\ ret = "False"
    /\ turing_state.tape # 0
    /\ ~HasEntry

(* C3: run returns only from a configuration without an entry, leaves it   *)
(* as it is, and every step before was taken from one with an entry.       *)
C3_RunStopsOnlyByHalting ==
    /\ [](pc = "returned" => (InBounds /\ ~HasEntry))
    /\ [][pc = "running" =>
             /\ pc' = "returned" =>
                    (~HasEntry /\ UNCHANGED <<heap, turing_state>>)
             /\ pc' = "running" => HasEntry]_vars

(* A run that returned after it had applied transitions. *)
C3_Witness ==
    /\ pc = "returned"
    /\ turing_state.tape # 0
    /\ turing_state.state # start_state

(* C4: a run that reaches a configuration without an entry returns, and   *)
(* a run never returns from a configuration that has an entry, however     *)
(* many transitions it has applied: it goes on with the next one.          *)
C4_NoStepLimit ==
    /\ (pc = "running" /\ InBounds /\ ~HasEntry) ~> (pc = "returned")
    /\ [][(pc = "running" /\ HasEntry) =>
             (pc' = "running" /\ turing_state'.state = Entry.ret_state)]_vars

(* A run that moved right over blanks up to the bound of the model. *)
C4_Witness ==
    /\ pc = "running"
    /\ HasEntry
    /\ turing_state.offset = 0
    /\ Len(tape) = MaxTapeLen
    /\ Index(State) = MaxTapeLen - 1

LeftFromFirst ==
    /\ pc = "stepping"
    /\ HasEntry
    /\ Index(State) = 0
    /\ Entry.ret_move = L

LeftGrowth ==
    /\ Len(tape') = Len(tape) + 1
    /\ tape'[1] = EMPTY
    /\ turing_state'.offset = turing_state.offset + 1
    /\ turing_state'.position = turing_state.position - 1
    /\ Index(State)' = 0
    /\ \A i \in 2..Len(tape) : tape'[i + 1] = tape[i]

(* C5, as stated: a Left move from physical index 0 prepends one blank     *)
(* and the symbol that was under the head is unchanged at index 1.         *)
C5_LeftGrowthKeepsSymbol ==
    [][LeftFromFirst => (LeftGrowth /\ tape'[2] = tape[1])]_vars

(* C5, amended: a Left move from physical index 0 prepends one blank,      *)
(* raises the offset by one, and the cell that was under the head holds    *)
(* the written symbol of the transition at physical index 1.               *)
C5_LeftGrowth ==
    [][LeftFromFirst => (LeftGrowth /\ tape'[2] = Entry.ret_symbol)]_vars

(* The head on a prepended blank, next to a written cell. *)
C5_Witness ==
    /\ pc = "stepping"
    /\ ret = "True"
    /\ turing_state.offset = MaxOffset + 1
    /\ Index(State) = 0
    /\ tape[1] = EMPTY
    /\ tape[2] = <<"1">>

RightStep ==
    /\ pc = "stepping"
    /\ HasEntry
    /\ Entry.ret_move = R

(* C6: a Right move from the last cell appends one blank, keeps the        *)
(* offset, and leaves the head on the new cell; a Right move from another  *)
(* cell does not grow the tape.                                            *)
C6_RightGrowth ==
    [][RightStep =>
          IF Index(State) = Len(tape) - 1
          THEN /\ Len(tape') = Len(tape) + 1
               /\ tape'[Len(tape) + 1] = EMPTY
               /\ SubSeq(tape', 1, Len(tape))
                      = [tape EXCEPT ![Len(tape)] = Entry.ret_symbol]
               /\ turing_state'.offset = turing_state.offset
               /\ Index(State)' = Len(tape)
          ELSE /\ Len(tape') = Len(tape)
               /\ turing_state'.offset = turing_state.offset
               /\ turing_state'.tape = turing_state.tape]_vars

(* The head on a blank appended to a tape that never grew on the left. *)
C6_Witness ==
    /\ pc = "stepping"
    /\ ret = "True"
    /\ turing_state.offset = -1
    /\ Len(tape) = MaxInitTape + 1
    /\ Index(State) = Len(tape) - 1
    /\ tape[Len(tape)] = EMPTY

ResultValue(i) == <<heap[results[i].tape], results[i].state>>

(* C7: two runs in a row on the same list and start state return the same  *)
(* tape and state.                                                         *)
C7_Determinism ==
    Len(results) >= 2 => ResultValue(1) = ResultValue(2)

(* C8: when run returns, the caller's list holds what it held at the call. *)
C8_CallerTapeUnchanged ==
    pc = "returned" => heap[0] = tape_before

(* C9: no step of a run changes the program of the machine. *)
C9_ProgrammReadOnly ==
    [][programm' = programm]_vars

(* A second run that applied transitions on the reused machine. *)
C9_Witness ==
    /\ Len(results) = 1
    /\ pc = "running"
    /\ turing_state.tape # 0
    /\ programm # EmptyDict

(* C10: no read of the symbol under the head in a run fails. *)
C10_ReadNeverFails ==
    raised # "IndexError"

(* C11: every entry of a parsed program sits under the key made of its     *)
(* own inp_state and inp_symbol, and no single_step on an in-bounds state  *)
(* raises the state or symbol mismatch error of execute_command.           *)
C11_NoMismatchError ==
    /\ \A key \in DOMAIN programm :
           /\ programm[key].inp_state = key[1]
           /\ programm[key].inp_symbol = key[2]
    /\ raised \notin {"ValueError: state", "ValueError: symbol"}

(* A program of two entries whose second single_step applied an entry. *)
C11_Witness ==
    /\ pc = "stepping"
    /\ ret = "True"
    /\ Cardinality(DOMAIN programm) = 2
    /\ turing_state.tape # 0

(* The pieces of the line of the input, as the caller put them together. *)
InputPieces == IF input.fields = <<>> THEN << <<>> >> ELSE input.fields

(* C14: TuringCommand.parse accepts a line exactly when it has five        *)
(* pieces between single spaces, the fifth is L, R or S and the second and *)
(* fourth are one character long; the command then holds the pieces, with  *)
(* the move -1 for L, +1 for R and 0 for S. Every other line is an error.  *)
C14_CommandParseAccepts ==
    pc = "command_parsed" =>
        LET p == InputPieces
            accepted == /\ Len(p) = 5
                        /\ p[5] \in {<<"L">>, <<"R">>, <<"S">>}
                        /\ Len(p[2]) = 1
                        /\ Len(p[4]) = 1
        IN  /\ output.ok <=> accepted
            /\ ~output.ok => output = [ok |-> FALSE, raised |-> "ValueError"]
            /\ output.ok =>
                   /\ output.command.inp_state = p[1]
                   /\ output.command.inp_symbol = p[2]
                   /\ output.command.ret_state = p[3]
                   /\ output.command.ret_symbol = p[4]
                   /\ output.command.ret_move =
                          CASE p[5] = <<"L">> -> -1
                            [] p[5] = <<"R">> -> 1
                            [] p[5] = <<"S">> -> 0

(* A line with an empty state name, accepted with the move Left. *)
C14_Witness ==
    /\ pc = "command_parsed"
    /\ output.ok
    /\ input.fields[1] = <<>>
    /\ output.command.ret_state = <<"Q", "0">>
    /\ output.command.ret_move = -1

(* C17: the constructor of TuringCommand fails exactly when inp_symbol or  *)
(* ret_symbol is not one character long or ret_move is none of -1, +1, 0,  *)
(* and then yields no command; otherwise it yields the command of its      *)
(* arguments, whatever the state names.                                    *)
C17_ConstructionFails ==
    pc = "constructed" =>
        /\ output.ok <=> /\ Len(input.inp_symbol) = 1
                         /\ Len(input.ret_symbol) = 1
                         /\ input.ret_move \in {-1, 1, 0}
        /\ output.ok => output.command = input
        /\ ~output.ok => DOMAIN output = {"ok", "raised"}

(* The constructor refused inp_symbol = "ab" with all else legal. *)
C17_Witness ==
    /\ pc = "constructed"
    /\ ~output.ok
    /\ input.inp_symbol = <<"a", "b">>
    /\ Len(input.ret_symbol) = 1
    /\ input.ret_move = 1

(* The non-blank lines of the text of the input, in text order. *)
NonBlank == SelectSeq(input.lines, LAMBDA line : line # <<>>)

WellFormed(line) == CommandParse(line).ok

CommandOf(line) == CommandParse(line).command

KeyOf(line) == <<CommandOf(line).inp_state, CommandOf(line).inp_symbol>>

AllWellFormed == \A i \in 1..Len(NonBlank) : WellFormed(NonBlank[i])

(* C12: when several lines have the same key, TuringMachine.parse raises   *)
(* no error, the program has one entry for each distinct key, and the      *)
(* entry of a key is the command of the last line with that key.           *)
C12_LastDuplicateWins ==
    (pc = "machine_parsed" /\ AllWellFormed) =>
        /\ output.ok
        /\ DOMAIN output.programm =
               {KeyOf(NonBlank[i]) : i \in 1..Len(NonBlank)}
        /\ \A i \in 1..Len(NonBlank) :
               (\A j \in (i + 1)..Len(NonBlank) :
                    KeyOf(NonBlank[j]) # KeyOf(NonBlank[i]))
                   => output.programm[KeyOf(NonBlank[i])]
                          = CommandOf(NonBlank[i])

(* Two different commands of one key, and a third command, were parsed. *)
C12_Witness ==
    /\ pc = "machine_parsed"
    /\ output.ok
    /\ Len(NonBlank) = 3
    /\ Cardinality(DOMAIN output.programm) = 2
    /\ KeyOf(NonBlank[1]) = KeyOf(NonBlank[3])
    /\ CommandOf(NonBlank[1]) # CommandOf(NonBlank[3])

Malformed(i) == input.lines[i] # <<>> /\ ~WellFormed(input.lines[i])

(* C13: when a non-blank line does not parse, TuringMachine.parse raises   *)
(* the error of the first such line and yields no program, whatever lines  *)
(* come before or after it.                                                *)
C13_AbortOnMalformedLine ==
    (pc = "machine_parsed" /\ \E i \in 1..Len(input.lines) : Malformed(i))
        => /\ ~output.ok
           /\ DOMAIN output = {"ok", "raised", "line"}
           /\ output.raised = "ValueError"
           /\ Malformed(output.line)
           /\ \A i \in 1..(output.line - 1) : ~Malformed(i)

(* A malformed line between two commands stopped the parse. *)
C13_Witness ==
    /\ pc = "machine_parsed"
    /\ ~output.ok
    /\ Len(input.lines) = 3
    /\ WellFormed(input.lines[1])
    /\ output.line = 2
    /\ WellFormed(input.lines[3])

(* C15: a text of commands with blank lines at its start, between the      *)
(* commands or at its end parses without error to the program of the text  *)
(* of its non-blank lines alone.                                           *)
C15_BlankLinesIgnored ==
    (pc = "machine_parsed" /\ AllWellFormed) =>
        /\ output.ok
        /\ MachineParseText(Join(NonBlank, "\n")).ok
        /\ output.programm = MachineParseText(Join(NonBlank, "\n")).programm

(* Blank lines at the start, between two commands and at the end. *)
C15_Witness ==
    /\ pc = "machine_parsed"
    /\ output.ok
    /\ Len(input.lines) >= 4
    /\ input.lines[1] = <<>>
    /\ input.lines[2] # <<>>
    /\ \E i \in 3..(Len(input.lines) - 1) :
           input.lines[i] = <<>> /\ input.lines[i + 1] # <<>>
    /\ Cardinality(DOMAIN output.programm) = 2

MoveCode(move) ==
    CASE move = -1 -> <<"L">> [] move = 1 -> <<"R">> [] move = 0 -> <<"S">>

(* The line 'inp_state inp_symbol ret_state ret_symbol move_code'. *)
Serialize(command) ==
    command.inp_state \o <<" ">> \o command.inp_symbol \o <<" ">>
        \o command.ret_state \o <<" ">> \o command.ret_symbol \o <<" ">>
        \o MoveCode(command.ret_move)

NoDuplicateKeys ==
    \A i, j \in 1..Len(NonBlank) :
        i # j => KeyOf(NonBlank[i]) # KeyOf(NonBlank[j])

(* C16: for a text of commands without duplicate keys the program has one  *)
(* entry for each non-blank line, and the entries written back as lines    *)
(* are the non-blank lines of the text.                                    *)
C16_RoundTrip ==
    (pc = "machine_parsed" /\ AllWellFormed /\ NoDuplicateKeys) =>
        /\ output.ok
        /\ Cardinality(DOMAIN output.programm) = Len(NonBlank)
        /\ {Serialize(output.programm[key]) : key \in DOMAIN output.programm}
               = {NonBlank[i] : i \in 1..Len(NonBlank)}

(* Three commands of different keys, one with an empty state name. *)
C16_Witness ==
    /\ pc = "machine_parsed"
    /\ output.ok
    /\ Cardinality(DOMAIN output.programm) = 3
    /\ NoDuplicateKeys
    /\ \E key \in DOMAIN output.programm : key[1] = <<>>

(* The symbol under the head, read off the tape directly. *)
CurSymbol == tape[Index(State) + 1]

(* The shift of the physical indices in a step. *)
Shift == turing_state'.offset - turing_state.offset

OtherCellsKept ==
    \A j \in 1..Len(tape) :
        j # Index(State) + 1 => tape'[j + Shift] = tape[j]

Matches(command) ==
    /\ turing_state.state = command.inp_state
    /\ CurSymbol = command.inp_symbol

(* C18: a transition applied to an in-bounds state it matches leaves       *)
(* to_symbol in the cell at the old logical position of the head, keeps    *)
(* every other cell at its logical position, sets the state to to_state    *)
(* and moves the head by the displacement of the move; a Stay move         *)
(* changes neither the length of the tape nor the offset.                  *)
C18_TransitionEffect ==
    [][(pc = "executing" /\ InBounds /\ Matches(input')) =>
          /\ raised' = "none"
          /\ tape'[Index(State) + 1 + Shift] = input'.ret_symbol
          /\ OtherCellsKept
          /\ turing_state'.state = input'.ret_state
          /\ turing_state'.position =
                 turing_state.position + input'.ret_move
          /\ input'.ret_move = 0 =>
                 /\ Len(tape') = Len(tape)
                 /\ Shift = 0
                 /\ turing_state'.tape = turing_state.tape]_vars

(* A Stay transition that wrote a new symbol and changed the state. *)
C18_Witness ==
    /\ pc = "executed"
    /\ raised = "none"
    /\ input # <<>>
    /\ input.ret_move = 0
    /\ input.ret_symbol # input.inp_symbol
    /\ input.ret_state # input.inp_state
    /\ CurSymbol = input.ret_symbol
    /\ turing_state.state = input.ret_state

(* C19: execute_command with a command of another state or another symbol  *)
(* raises an error and changes neither tape, head, offset nor state; the   *)
(* error is the one of the state whenever the state differs.               *)
C19_MismatchRaises ==
    [][(pc = "executing" /\ InBounds /\ ~Matches(input')) =>
          /\ UNCHANGED <<heap, turing_state>>
          /\ raised' = IF turing_state.state # input'.inp_state
                       THEN "ValueError: state"
                       ELSE "ValueError: symbol"]_vars

(* The state error was raised for a command that differs in both. *)
C19_Witness ==
    /\ pc = "executed"
    /\ raised = "ValueError: state"
    /\ input.inp_state # turing_state.state
    /\ input.inp_symbol # CurSymbol

(* C20: in a run on a non-empty tape every step keeps the tape or adds     *)
(* one cell, a blank: in front, with the offset raised by one, or at the   *)
(* end, with the offset kept; every cell but the one under the head keeps  *)
(* its symbol and logical position; the offset is never negative and the   *)
(* tape is as long as the initial tape, the cells in front (the offset)    *)
(* and the cells appended.                                                 *)
C20_GrowthAccounting ==
    /\ []((pc \in {"running", "returned"} /\ Len(heap[0]) > 0) =>
            /\ turing_state.offset >= 0
            /\ Len(tape) >= Len(heap[0]) + turing_state.offset)
    /\ [][(pc = "running" /\ Len(heap[0]) > 0) =>
             /\ Shift \in {0, 1}
             /\ Len(tape') - Len(tape) \in {0, 1}
             /\ Shift = 1 => (Len(tape') = Len(tape) + 1
                              /\ tape'[1] = <<"b">>)
             /\ (Len(tape') = Len(tape) + 1 /\ Shift = 0) =>
                    tape'[Len(tape')] = <<"b">>
             /\ OtherCellsKept]_vars

(* A run on a tape of two cells that added one cell in front and then     *)
(* one at the end, where the head is.                                      *)
C20_Witness ==
    /\ pc = "running"
    /\ Len(heap[0]) = 2
    /\ turing_state.offset = 1
    /\ Len(tape) = 4
    /\ Index(State) = 3
    /\ tape[1] = <<"b">>
    /\ tape[4] = <<"b">>

====
